---- MODULE Spec2Model ----
(***************************************************************************)
(* Credit-Risk-Model: proxy target engineering (src/features/rfm_target.py) *)
(* and the feature pipeline's fit/transform (src/features/                  *)
(* feature_pipeline.py), as state machines.                                 *)
(*                                                                          *)
(* Time is counted in ticks, TicksPerDay ticks to a day, so that the        *)
(* Timedelta.days conversion (a floor) is not the identity.  A float cell   *)
(* is a record [nan, v]; a timestamp cell is a record [kind, valid, t].     *)
(***************************************************************************)
EXTENDS Integers, Sequences, FiniteSets, TLC

\* add_rfm_target: its arguments, locals, position and result.
VARIABLES df, snapshot_arg, n_clusters, pc, out, snapshot_date, rfm, scaler,
          rfm_scaled, cluster, centers_scaled, centers, risk_cluster, ret,
          stages

\* The feature pipeline: the frame it was fitted on, its fitted parameters
\* (Aggregator._aggs_ and the preprocessor's statistics), and the last
\* transform call: its input, the Aggregator step's output and the result;
\* calls counts the transform calls made.
VARIABLES ppc, fit_X, aggs, prep, last_X, agg_out, last_out, calls

rfmVars == <<df, snapshot_arg, n_clusters, pc, out, snapshot_date, rfm, scaler,
             rfm_scaled, cluster, centers_scaled, centers, risk_cluster, ret,
             stages>>

pipeVars == <<ppc, fit_X, aggs, prep, last_X, agg_out, last_out, calls>>

vars == <<rfmVars, pipeVars>>

\* ------------------------------------------------------------------ bounds
MaxRows == 3
MaxFitRows == 2
MaxTransformRows == 1
MaxTransformCalls == 2
TicksPerDay == 2
\* n_clusters: Literal[3] | int = 3
DefaultClusters == 3

\* ------------------------------------------------------------- data model
\* A missing customer id (NaN in id_col).
NoId == "NaN"
Customers == {"C1", "C2"}
\* Midnight of day 0 and of day 1.
Ticks == {0, TicksPerDay}
Amounts == {-1, 2}

\* A timestamp cell of a column of the given kind: a text that parses to
\* tick t or does not parse (valid = FALSE), a Timestamp or NaT, a
\* timezone-aware Timestamp of instant t or NaT.
Cell(kind, valid, t) == [kind |-> kind, valid |-> valid, t |-> t]
NaT == Cell("datetime", FALSE, 0)

CellsOf(kind, ticks) ==
    {Cell(kind, TRUE, t) : t \in ticks} \cup {Cell(kind, FALSE, 0)}

FramesOf(ids, cells, amounts) ==
    UNION {[1..n -> [CustomerId : ids, TransactionStartTime : cells,
                     Amount : amounts]] : n \in 0..MaxRows}

\* One row for each of three customers, in the order of their ids.
OneRowEach(ids, cells, amounts) ==
    {f \in [1..Len(ids) -> [CustomerId : {ids[i] : i \in 1..Len(ids)},
                             TransactionStartTime : cells, Amount : amounts]] :
        Len(ids) <= MaxRows /\ \A i \in 1..Len(ids) : f[i].CustomerId = ids[i]}

\* The input frames: datetime columns of two customers in full, and four
\* smaller families: text columns, timezone-aware columns, frames with
\* missing customer ids, and frames of three customers.
Frames ==
    FramesOf(Customers, CellsOf("datetime", Ticks), Amounts)
      \cup FramesOf(Customers, CellsOf("text", Ticks), {2})
      \cup FramesOf(Customers, CellsOf("datetime_tz", Ticks), {2})
      \cup FramesOf({NoId, "C1"}, CellsOf("datetime", {0}), {2})
      \cup OneRowEach(<<"C1", "C2", "C3">>,
                      {Cell("datetime", TRUE, t) : t \in Ticks}, Amounts)

Nan == [nan |-> TRUE, v |-> 0]
Num(x) == [nan |-> FALSE, v |-> x]

NoFrame == [returned |-> FALSE, rows |-> <<>>]

\* ---------------------------------------------------------------- helpers
RECURSIVE SumOver(_, _)
SumOver(S, f) ==
    IF S = {} THEN 0
    ELSE LET x == CHOOSE y \in S : TRUE IN f[x] + SumOver(S \ {x}, f)

Max(S) == CHOOSE x \in S : \A y \in S : y <= x

\* A version of the parse that turns an unparsable value into the epoch.
ToDatetimeEpoch(c) ==
    Cell(IF c.kind = "datetime_tz" THEN "datetime_tz" ELSE "datetime", TRUE,
         IF c.valid THEN c.t ELSE 0)

\* pd.to_datetime(..., errors="coerce") on one cell, then tz_convert(None):
\* text that parses becomes a Timestamp, anything unparsable becomes NaT, and
\* a timezone-aware Timestamp becomes the naive Timestamp of the same instant.
ToDatetime(c) ==
    IF c.valid THEN Cell(IF c.kind = "datetime_tz" THEN "datetime_tz" ELSE "datetime", TRUE, c.t)
    ELSE Cell(IF c.kind = "datetime_tz" THEN "datetime_tz" ELSE "datetime", FALSE, 0)

TzConvertNone(c) == Cell("datetime", c.valid, c.t)

ParseColumn(rows) ==
    [i \in DOMAIN rows |->
        [rows[i] EXCEPT !.TransactionStartTime = TzConvertNone(ToDatetime(@))]]

\* out[datetime_col].isna().all()
AllNa(rows) == \A i \in DOMAIN rows : ~rows[i].TransactionStartTime.valid

ValidTicks(rows, I) == {rows[i].TransactionStartTime.t :
                          i \in {j \in I : rows[j].TransactionStartTime.valid}}

\* ------------------------------------------------------------ _compute_rfm
RowsOfCustomer(rows, c) == {i \in DOMAIN rows : rows[i].CustomerId = c}

\* groupby(id_col) drops the rows whose key is missing.
GroupKeys(rows) == {rows[i].CustomerId : i \in DOMAIN rows} \ {NoId}

\* (snapshot_date - x.max()).days: max skips NaT, NaT.days is NaN, and days
\* is the floor of the difference in days.
RecencyOf(rows, I, snap) ==
    LET V == ValidTicks(rows, I)
    IN  IF V = {} THEN Nan ELSE Num((snap - Max(V)) \div TicksPerDay)

\* "count" counts the non-missing cells of datetime_col.
FrequencyOf(rows, I) ==
    Cardinality({i \in I : rows[i].TransactionStartTime.valid})

MonetaryOf(rows, I) == SumOver(I, [i \in I |-> rows[i].Amount])

ComputeRfm(rows, snap) ==
    [c \in GroupKeys(rows) |->
        LET I == RowsOfCustomer(rows, c)
        IN  [Recency   |-> RecencyOf(rows, I, snap),
             Frequency |-> Num(FrequencyOf(rows, I)),
             Monetary  |-> Num(MonetaryOf(rows, I))]]

\* ---------------------------------------------------------- StandardScaler
Cols == {"Recency", "Frequency", "Monetary"}

\* The customers whose value in column col is not NaN (NaN is ignored by fit).
Finite(table, col) == {c \in DOMAIN table : ~table[c][col].nan}

\* StandardScaler.fit: per column the count n, the sum (mean_ = sum / n) and
\* n^2 * var_ = n * sum(x^2) - sum(x)^2; scale_ is sqrt(var_), or 1 when the
\* variance is zero.
ScalerFit(table) ==
    [col \in Cols |->
        LET S  == Finite(table, col)
            n  == Cardinality(S)
            s1 == SumOver(S, [c \in S |-> table[c][col].v])
            s2 == SumOver(S, [c \in S |-> table[c][col].v * table[c][col].v])
        IN  [n |-> n, sum |-> s1, varnum |-> n * s2 - s1 * s1]]

\* StandardScaler.transform: (x - mean_) / scale_, kept exactly as the integer
\* n * x - sum, which is the scaled value in units of 1 / (n * scale_): a
\* positive factor per column.  NaN stays NaN.
ScalerTransform(sc, table) ==
    [c \in DOMAIN table |->
        [col \in Cols |->
            IF table[c][col].nan THEN Nan
            ELSE Num(sc[col].n * table[c][col].v - sc[col].sum)]]

\* A rational num / den with den > 0.
Rat(n, d) == [num |-> n, den |-> d]
RatLess(a, b) == a.num * b.den < b.num * a.den
RatEq(a, b) == a.num * b.den = b.num * a.den

\* StandardScaler.inverse_transform of one scaled coordinate z (a rational in
\* the units of ScalerTransform): z * scale_ + mean_ = (z + sum) / n.
InverseTransform(sc, col, z) ==
    Rat(z.num + z.den * sc[col].sum, z.den * sc[col].n)

\* ------------------------------------------------------------------ KMeans
HasNan(table) == \E c \in DOMAIN table : \E col \in Cols : table[c][col].nan

Clusters(k) == 0..(k - 1)
Members(lab, j) == {c \in DOMAIN lab : lab[c] = j}

\* The centroid of a non-empty cluster: the mean of its members.
Centroid(X, S) ==
    [col \in Cols |-> Rat(SumOver(S, [c \in S |-> X[c][col].v]), Cardinality(S))]

\* KMeans.fit_predict raises ValueError on NaN input and on fewer samples
\* than clusters.
KMeansFails(X, k) == HasNan(X) \/ Cardinality(DOMAIN X) < k

\* What a converged fit can return: labels_ is the nearest-centroid
\* assignment, so equal points share a label; min(k, distinct points)
\* clusters are non-empty; a non-empty cluster's centroid is the mean of its
\* members and an empty cluster's centroid sits on a data point.
KMeansLabels(X, k) ==
    {lab \in [DOMAIN X -> Clusters(k)] :
        /\ \A a, b \in DOMAIN X : X[a] = X[b] => lab[a] = lab[b]
        /\ LET used == {lab[c] : c \in DOMAIN X}
               distinct == {X[c] : c \in DOMAIN X}
           IN  Cardinality(used) = IF Cardinality(distinct) < k
                                   THEN Cardinality(distinct) ELSE k}

KMeansCenters(X, k, lab) ==
    LET empty == {j \in Clusters(k) : Members(lab, j) = {}}
    IN  {[j \in Clusters(k) |->
            IF j \in empty THEN Centroid(X, {seed[j]})
            ELSE Centroid(X, Members(lab, j))] : seed \in [empty -> DOMAIN X]}

\* ------------------------------------------------- high-risk cluster choice
\* Series.rank (method "average"), doubled to stay in the integers:
\* 2 * rank = 2 * #smaller + #equal + 1, the value itself counted in #equal.
Rank2Ascending(vals, j) ==
    2 * Cardinality({i \in DOMAIN vals : RatLess(vals[i], vals[j])})
      + Cardinality({i \in DOMAIN vals : RatEq(vals[i], vals[j])}) + 1

Rank2Descending(vals, j) ==
    2 * Cardinality({i \in DOMAIN vals : RatLess(vals[j], vals[i])})
      + Cardinality({i \in DOMAIN vals : RatEq(vals[i], vals[j])}) + 1

Column(cen, col) == [j \in DOMAIN cen |-> cen[j][col]]

\* centers["_risk_score"], doubled.
RiskScore2(cen, j) ==
    Rank2Ascending(Column(cen, "Frequency"), j)
      + Rank2Ascending(Column(cen, "Monetary"), j)
      + Rank2Descending(Column(cen, "Recency"), j)

\* A version of idxmin that returns the last index holding the minimum.
IdxMinLast(cen) ==
    CHOOSE j \in DOMAIN cen :
        /\ \A i \in DOMAIN cen : RiskScore2(cen, j) <= RiskScore2(cen, i)
        /\ \A i \in DOMAIN cen : i > j => RiskScore2(cen, i) # RiskScore2(cen, j)

\* Series.idxmin: the first index holding the minimum.
IdxMin(cen) ==
    CHOOSE j \in DOMAIN cen :
        /\ \A i \in DOMAIN cen : RiskScore2(cen, j) <= RiskScore2(cen, i)
        /\ \A i \in DOMAIN cen : i < j => RiskScore2(cen, i) # RiskScore2(cen, j)

\* ------------------------------------------------------------ label, merge
\* A version of the target that flags every cluster but the selected one.
IsHighRiskInverted(lab, risk) ==
    [c \in DOMAIN lab |-> IF lab[c] # risk THEN 1 ELSE 0]

IsHighRisk(lab, risk) == [c \in DOMAIN lab |-> IF lab[c] = risk THEN 1 ELSE 0]

\* out.merge(rfm[["is_high_risk"]], left_on=id_col, right_index=True,
\* how="left"): every left row is kept, in order; a key with no RFM row gets
\* a missing label.
MergeLabel(rows, label) ==
    [i \in DOMAIN rows |->
        [CustomerId |-> rows[i].CustomerId,
         TransactionStartTime |-> rows[i].TransactionStartTime,
         Amount |-> rows[i].Amount,
         is_high_risk |-> IF rows[i].CustomerId \in DOMAIN label
                          THEN Num(label[rows[i].CustomerId]) ELSE Nan]]

\* ------------------------------------------------------- feature pipeline
\* A numeric cell: missing, or the rational num / den.  Amount_std is kept as
\* its square (the sample variance), the square root not being a rational.
Missing == [nan |-> TRUE, num |-> 0, den |-> 1]
Val(n, d) == [nan |-> FALSE, num |-> n, den |-> d]

NoCat == "NaN"
\* The categories in sorted order (np.unique, and the tie-break of the mode).
CatOrder == <<"app", "purchase", "refund", "web">>
CatIndex(c) == CHOOSE i \in 1..Len(CatOrder) : CatOrder[i] = c

PipeFramesOf(maxRows, ids, amounts, dates, types, channels) ==
    UNION {[1..n -> [CustomerId : ids, Amount : amounts,
                     TransactionDate : dates, TransactionType : types,
                     Channel : channels]] : n \in 0..maxRows}

\* Frames of at most maxRows rows: customers and amounts in full, and three
\* smaller families varying the timestamp, the transaction type (missing
\* included) and the channel.
PipeFrames(maxRows) ==
    PipeFramesOf(maxRows, Customers, Amounts, {Cell("text", TRUE, 0)},
                 {"purchase"}, {"web"})
      \cup PipeFramesOf(maxRows, {"C1"}, {2},
                        CellsOf("text", {TicksPerDay + 1}), {"purchase"}, {"web"})
      \cup PipeFramesOf(maxRows, {"C1"}, {2}, {Cell("text", TRUE, 0)},
                        {"purchase", "refund", NoCat}, {"web"})
      \cup PipeFramesOf(maxRows, {"C1"}, {2}, {Cell("text", TRUE, 0)},
                        {"purchase"}, {"web", "app"})

\* The frames passed to fit, and the frames passed to transform.
FitFrames == PipeFrames(MaxFitRows)
TransformFrames == PipeFrames(MaxTransformRows)

\* DatetimeExtractor.transform: the calendar parts of the parsed timestamp,
\* ticks counted from 1970-01-01 00:00; all four are missing when the value
\* does not parse.
DatetimeParts(c) ==
    LET d == ToDatetime(c)
    IN  IF ~d.valid
        THEN [hour |-> Missing, day |-> Missing, month |-> Missing,
              year |-> Missing]
        ELSE [hour  |-> Val((d.t % TicksPerDay) * (24 \div TicksPerDay), 1),
              day   |-> Val(1 + d.t \div TicksPerDay, 1),
              month |-> Val(1, 1),
              year  |-> Val(1970, 1)]

DatetimeExtract(X) ==
    [i \in DOMAIN X |->
        [CustomerId |-> X[i].CustomerId,
         Amount |-> X[i].Amount,
         TransactionDate |-> X[i].TransactionDate,
         TransactionType |-> X[i].TransactionType,
         Channel |-> X[i].Channel,
         TransactionDate_hour  |-> DatetimeParts(X[i].TransactionDate).hour,
         TransactionDate_day   |-> DatetimeParts(X[i].TransactionDate).day,
         TransactionDate_month |-> DatetimeParts(X[i].TransactionDate).month,
         TransactionDate_year  |-> DatetimeParts(X[i].TransactionDate).year]]

\* Aggregator.fit: groupby(id_col)[amount_col].agg(sum, mean, count, std);
\* std is the sample standard deviation (ddof = 1), missing for one value.
AggregatorFit(X) ==
    [c \in GroupKeys(X) |->
        LET I  == RowsOfCustomer(X, c)
            n  == Cardinality(I)
            s1 == SumOver(I, [i \in I |-> X[i].Amount])
            s2 == SumOver(I, [i \in I |-> X[i].Amount * X[i].Amount])
        IN  [Amount_sum   |-> Val(s1, 1),
             Amount_mean  |-> Val(s1, n),
             Amount_count |-> Val(n, 1),
             Amount_std   |-> IF n = 1 THEN Missing
                              ELSE Val(n * s2 - s1 * s1, n * (n - 1))]]

NoAggregates ==
    [Amount_sum |-> Missing, Amount_mean |-> Missing, Amount_count |-> Missing,
     Amount_std |-> Missing]

\* A version of the merge with how="inner": rows without aggregates go.
AggregatorTransformInner(a, X) ==
    LET Known(r) == r.CustomerId \in DOMAIN a
    IN  [i \in DOMAIN SelectSeq(X, Known) |->
            [base |-> SelectSeq(X, Known)[i],
             agg  |-> a[SelectSeq(X, Known)[i].CustomerId]]]

\* X.merge(self._aggs_, left_on=id_col, right_index=True, how="left")
AggregatorTransform(a, X) ==
    [i \in DOMAIN X |->
        [base |-> X[i],
         agg  |-> IF X[i].CustomerId \in DOMAIN a THEN a[X[i].CustomerId]
                  ELSE NoAggregates]]

\* The preprocessor's columns (build_pipeline).
AggregateFeatures == {"Amount_sum", "Amount_mean", "Amount_count", "Amount_std"}
DatetimeFeatures ==
    {"TransactionDate_hour", "TransactionDate_day", "TransactionDate_month",
     "TransactionDate_year"}
NumericFeatures == AggregateFeatures \cup DatetimeFeatures
CategoricalFeatures == {"TransactionType", "Channel"}

NumericCell(row, col) ==
    IF col \in AggregateFeatures THEN row.agg[col] ELSE row.base[col]

ValLess(a, b) == a.num * b.den < b.num * a.den
ValLeq(a, b) == a.num * b.den <= b.num * a.den

\* The k-th smallest of the non-missing cells of a column.
KthSmallest(F, col, k) ==
    LET J == {i \in DOMAIN F : ~NumericCell(F[i], col).nan}
        i == CHOOSE i \in J :
                 /\ Cardinality({j \in J : ValLess(NumericCell(F[j], col),
                                                   NumericCell(F[i], col))}) < k
                 /\ Cardinality({j \in J : ValLeq(NumericCell(F[j], col),
                                                   NumericCell(F[i], col))}) >= k
    IN  NumericCell(F[i], col)

\* SimpleImputer(strategy="median").fit on one column: the median is the
\* mean of the two middle values lo and hi; a column without any value has
\* no statistic and is dropped by transform.
MedianFit(F, col) ==
    LET n == Cardinality({i \in DOMAIN F : ~NumericCell(F[i], col).nan})
    IN  IF n = 0 THEN [empty |-> TRUE, lo |-> Missing, hi |-> Missing]
        ELSE [empty |-> FALSE,
              lo |-> KthSmallest(F, col, (n + 1) \div 2),
              hi |-> KthSmallest(F, col, n \div 2 + 1)]

\* SimpleImputer.transform on one cell: a value stays, a missing cell becomes
\* the median (lo + hi) / 2.
MedianImpute(stat, cell) ==
    IF cell.nan THEN [lo |-> stat.lo, hi |-> stat.hi]
    ELSE [lo |-> cell, hi |-> cell]

\* SimpleImputer(strategy="most_frequent").fit on one column: the most
\* frequent value, the smallest one among equally frequent values.
CountOf(F, col, c) == Cardinality({i \in DOMAIN F : F[i].base[col] = c})
Seen(F, col) == {F[i].base[col] : i \in DOMAIN F} \ {NoCat}

MostFrequentFit(F, col) ==
    IF Seen(F, col) = {} THEN NoCat
    ELSE CHOOSE c \in Seen(F, col) :
             \A d \in Seen(F, col) :
                 \/ CountOf(F, col, d) < CountOf(F, col, c)
                 \/ /\ CountOf(F, col, d) = CountOf(F, col, c)
                    /\ CatIndex(c) <= CatIndex(d)

\* ColumnTransformer.fit on the Aggregator step's output: per numeric column
\* the median and the imputed column the StandardScaler's mean_ and scale_
\* are computed from (kept as a bag of cells); per categorical column the
\* most frequent value and the OneHotEncoder's categories_.
PrepFit(F) ==
    [median |-> [col \in NumericFeatures |-> MedianFit(F, col)],
     scaler |-> [col \in {c \in NumericFeatures : ~MedianFit(F, c).empty} |->
                   LET cells == {MedianImpute(MedianFit(F, col),
                                              NumericCell(F[i], col)) :
                                     i \in DOMAIN F}
                   IN  [v \in cells |->
                          Cardinality({i \in DOMAIN F :
                              MedianImpute(MedianFit(F, col),
                                           NumericCell(F[i], col)) = v})]],
     most_frequent |-> [col \in CategoricalFeatures |-> MostFrequentFit(F, col)],
     categories |-> [col \in CategoricalFeatures |-> Seen(F, col)]]

NoPrep == [median |-> <<>>, scaler |-> <<>>, most_frequent |-> <<>>,
           categories |-> <<>>]

\* ColumnTransformer.transform: numeric cells imputed and standardised with
\* the frozen scaler statistics; categorical cells imputed and one-hot
\* encoded over the frozen categories, an unseen category giving all zeros.
PrepTransform(pr, F) ==
    [rows |->
        [i \in DOMAIN F |->
            [num |-> [col \in DOMAIN pr.scaler |->
                        MedianImpute(pr.median[col], NumericCell(F[i], col))],
             cat |-> [col \in {c \in CategoricalFeatures :
                                   pr.most_frequent[c] # NoCat} |->
                        LET v == IF F[i].base[col] = NoCat
                                 THEN pr.most_frequent[col]
                                 ELSE F[i].base[col]
                        IN  [k \in pr.categories[col] |->
                               IF v = k THEN 1 ELSE 0]]]],
     scaled_with |-> pr.scaler,
     raised |-> FALSE]

NoOutput == [rows |-> <<>>, scaled_with |-> <<>>, raised |-> FALSE]
Raised == [rows |-> <<>>, scaled_with |-> <<>>, raised |-> TRUE]

PipelineIdle ==
    /\ ppc = "unfitted"
    /\ fit_X = <<>>
    /\ aggs = <<>>
    /\ prep = NoPrep
    /\ last_X = <<>>
    /\ agg_out = <<>>
    /\ last_out = NoOutput
    /\ calls = 0

\* Pipeline.fit: each step but the last is fitted and applied, the last is
\* fitted.  An empty frame is aggregated and then rejected by the
\* preprocessor (zero samples).
PipelineFit ==
    /\ ppc = "unfitted"
    /\ \E X \in FitFrames :
          /\ fit_X' = X
          /\ aggs' = AggregatorFit(DatetimeExtract(X))
          /\ IF X = <<>>
             THEN ppc' = "fit_failed" /\ prep' = prep
             ELSE /\ ppc' = "fitted"
                  /\ prep' = PrepFit(AggregatorTransform(
                                 AggregatorFit(DatetimeExtract(X)),
                                 DatetimeExtract(X)))
    /\ UNCHANGED <<last_X, agg_out, last_out, calls>>
    /\ UNCHANGED rfmVars

\* A version of transform in which the Aggregator step is fitted again on
\* the frame it is given (fit_transform in place of transform).
PipelineTransformRefit ==
    /\ ppc \in {"fitted", "transformed"}
    /\ calls < MaxTransformCalls
    /\ calls' = calls + 1
    /\ \E X \in TransformFrames :
          /\ last_X' = X
          /\ aggs' = AggregatorFit(DatetimeExtract(X))
          /\ agg_out' = AggregatorTransform(AggregatorFit(DatetimeExtract(X)),
                                            DatetimeExtract(X))
          /\ last_out' =
                IF X = <<>> THEN Raised
                ELSE PrepTransform(prep, AggregatorTransform(
                         AggregatorFit(DatetimeExtract(X)), DatetimeExtract(X)))
    /\ ppc' = "transformed"
    /\ UNCHANGED <<fit_X, prep>>
    /\ UNCHANGED rfmVars

\* Pipeline.transform: every step's transform in turn, on the frozen
\* parameters.  The preprocessor rejects a frame of zero rows.
PipelineTransform ==
    /\ ppc \in {"fitted", "transformed"}
    /\ calls < MaxTransformCalls
    /\ calls' = calls + 1
    /\ \E X \in TransformFrames :
          /\ last_X' = X
          /\ agg_out' = AggregatorTransform(aggs, DatetimeExtract(X))
          /\ last_out' =
                IF X = <<>> THEN Raised
                ELSE PrepTransform(prep, AggregatorTransform(aggs, DatetimeExtract(X)))
    /\ ppc' = "transformed"
    /\ UNCHANGED <<fit_X, aggs, prep>>
    /\ UNCHANGED rfmVars

\* ----------------------------------------------------------- add_rfm_target
\* The snapshot_date argument: None, or noon of day 0.
SnapshotArgs ==
    {[given |-> FALSE, t |-> 0]} \cup
    {[given |-> TRUE, t |-> TicksPerDay - 1]}

DefaultSnapshot(rows) == Max(ValidTicks(rows, DOMAIN rows)) + TicksPerDay

SnapshotDate(arg, rows) == IF arg.given THEN arg.t ELSE DefaultSnapshot(rows)

RfmLocalsInit ==
    /\ snapshot_arg = [given |-> FALSE, t |-> 0]
    /\ n_clusters = DefaultClusters
    /\ pc = "start"
    /\ out = <<>>
    /\ snapshot_date = 0
    /\ rfm = <<>>
    /\ scaler = <<>>
    /\ rfm_scaled = <<>>
    /\ cluster = <<>>
    /\ centers_scaled = <<>>
    /\ centers = <<>>
    /\ risk_cluster = -1
    /\ ret = NoFrame
    /\ stages = <<"UNFITTED">>

Init == df \in Frames /\ RfmLocalsInit /\ PipelineIdle

\* Lines 57-68: the empty check, the copy, the parse, the all-missing check
\* and the timezone normalisation.
ParseAndValidate ==
    /\ pc = "start"
    /\ IF df = <<>>
       THEN pc' = "failed" /\ out' = out
       ELSE IF AllNa(ParseColumn(df))
            THEN pc' = "failed" /\ out' = out
            ELSE pc' = "parsed" /\ out' = ParseColumn(df)
    /\ UNCHANGED pipeVars
    /\ UNCHANGED <<df, snapshot_arg, n_clusters, snapshot_date, rfm, scaler,
                   rfm_scaled, cluster, centers_scaled, centers, risk_cluster,
                   ret, stages>>

\* Lines 70-82: the snapshot date and the RFM table.
ComputeRFMStep ==
    /\ pc = "parsed"
    /\ \E arg \in SnapshotArgs :
          /\ snapshot_arg' = arg
          /\ snapshot_date' = SnapshotDate(arg, out)
          /\ rfm' = ComputeRfm(out, SnapshotDate(arg, out))
    /\ pc' = "rfm"
    /\ stages' = Append(stages, "RFM_COMPUTED")
    /\ UNCHANGED pipeVars
    /\ UNCHANGED <<df, n_clusters, out, scaler, rfm_scaled, cluster,
                   centers_scaled, centers, risk_cluster, ret>>

\* Lines 84-86: StandardScaler.fit_transform, which raises on zero samples.
ScaleStep ==
    /\ pc = "rfm"
    /\ IF DOMAIN rfm = {}
       THEN /\ pc' = "failed"
            /\ UNCHANGED <<scaler, rfm_scaled, stages>>
       ELSE /\ pc' = "scaled"
            /\ scaler' = ScalerFit(rfm)
            /\ rfm_scaled' = ScalerTransform(ScalerFit(rfm), rfm)
            /\ stages' = Append(stages, "SCALED")
    /\ UNCHANGED pipeVars
    /\ UNCHANGED <<df, snapshot_arg, n_clusters, out, snapshot_date, rfm,
                   cluster, centers_scaled, centers, risk_cluster, ret>>

\* Lines 88-94: KMeans(n_clusters).fit_predict(rfm_scaled).
ClusterStep ==
    /\ pc = "scaled"
    /\ \E k \in 1..DefaultClusters :
          /\ n_clusters' = k
          /\ IF KMeansFails(rfm_scaled, k)
             THEN /\ pc' = "failed"
                  /\ UNCHANGED <<cluster, centers_scaled, stages>>
             ELSE /\ pc' = "clustered"
                  /\ \E lab \in KMeansLabels(rfm_scaled, k) :
                        /\ cluster' = lab
                        /\ centers_scaled' \in KMeansCenters(rfm_scaled, k, lab)
                  /\ stages' = Append(stages, "CLUSTERED")
    /\ UNCHANGED pipeVars
    /\ UNCHANGED <<df, snapshot_arg, out, snapshot_date, rfm, scaler,
                   rfm_scaled, centers, risk_cluster, ret>>

\* Lines 96-109: centroids back in RFM units, the composite score, idxmin.
CentersOf(sc, cs) ==
    [j \in DOMAIN cs |-> [col \in Cols |-> InverseTransform(sc, col, cs[j][col])]]

SelectRiskStep ==
    /\ pc = "clustered"
    /\ centers' = CentersOf(scaler, centers_scaled)
    /\ risk_cluster' = IdxMin(CentersOf(scaler, centers_scaled))
    /\ pc' = "selected"
    /\ stages' = Append(stages, "RISK_CLUSTER_SELECTED")
    /\ UNCHANGED pipeVars
    /\ UNCHANGED <<df, snapshot_arg, n_clusters, out, snapshot_date, rfm,
                   scaler, rfm_scaled, cluster, centers_scaled, ret>>

\* A version of the last step that also returns the working copy, without
\* labels, after a failure.
LabelStepAfterFailure ==
    /\ pc \in {"selected", "failed"}
    /\ ret' = [returned |-> TRUE,
               rows |-> IF pc = "failed" THEN out
                        ELSE MergeLabel(out, IsHighRisk(cluster, risk_cluster))]
    /\ pc' = "labeled"
    /\ stages' = Append(stages, "LABELED")
    /\ UNCHANGED pipeVars
    /\ UNCHANGED <<df, snapshot_arg, n_clusters, out, snapshot_date, rfm,
                   scaler, rfm_scaled, cluster, centers_scaled, centers,
                   risk_cluster>>

\* Lines 111-122: the binary target, the merge and the return.
LabelStep ==
    /\ pc = "selected"
    /\ ret' = [returned |-> TRUE,
               rows |-> MergeLabel(out, IsHighRisk(cluster, risk_cluster))]
    /\ pc' = "labeled"
    /\ stages' = Append(stages, "LABELED")
    /\ UNCHANGED pipeVars
    /\ UNCHANGED <<df, snapshot_arg, n_clusters, out, snapshot_date, rfm,
                   scaler, rfm_scaled, cluster, centers_scaled, centers,
                   risk_cluster>>

Next ==
    \/ ParseAndValidate
    \/ ComputeRFMStep
    \/ ScaleStep
    \/ ClusterStep
    \/ SelectRiskStep
    \/ LabelStep

Spec == Init /\ [][Next]_vars

\* The feature pipeline on its own: one fit, then any transform calls.
InitPipeline == df = <<>> /\ RfmLocalsInit /\ PipelineIdle

NextPipeline ==
    \/ PipelineFit
    \/ PipelineTransform

SpecPipeline == InitPipeline /\ [][NextPipeline]_vars

\* ------------------------------------------------------------------ claims
AfterRfm == pc \in {"rfm", "scaled", "clustered", "selected", "labeled"}
AfterSelect == pc \in {"selected", "labeled"}
SomeValid(rows) == \E i \in DOMAIN rows : rows[i].TransactionStartTime.valid
NoneValid(rows) == \A i \in DOMAIN rows : ~rows[i].TransactionStartTime.valid
NothingComputed ==
    /\ rfm = <<>> /\ scaler = <<>> /\ rfm_scaled = <<>>
    /\ cluster = <<>> /\ centers_scaled = <<>> /\ centers = <<>>
    /\ stages = <<"UNFITTED">>

\* C1: once the validation has run on an input with no rows, or with no
\* timestamp that parses, the call has failed, nothing is returned, and no
\* RFM aggregation, scaling or clustering has taken place.
C1_ValidationError ==
    (pc # "start" /\ (df = <<>> \/ NoneValid(df)))
        => (pc = "failed" /\ ~ret.returned /\ NothingComputed)

C1_Witness ==
    pc = "failed" /\ df # <<>> /\ NoneValid(df) /\ Len(df) = 2

\* C2: after the selection, risk_cluster is one index of 0..k-1 whose centroid
\* has the minimum composite score, and no lower index has that score.
C2_RiskClusterIsFirstMinimum ==
    AfterSelect =>
        /\ risk_cluster \in Clusters(n_clusters)
        /\ DOMAIN centers = Clusters(n_clusters)
        /\ \A j \in Clusters(n_clusters) :
              /\ RiskScore2(centers, risk_cluster) <= RiskScore2(centers, j)
              /\ j < risk_cluster =>
                    RiskScore2(centers, risk_cluster) < RiskScore2(centers, j)

C2_Witness ==
    /\ pc = "labeled"
    /\ n_clusters = DefaultClusters
    /\ \E j \in Clusters(n_clusters) :
          /\ j > risk_cluster
          /\ RiskScore2(centers, j) = RiskScore2(centers, risk_cluster)

Dominated(a, b) ==
    /\ rfm[a].Frequency.v < rfm[b].Frequency.v
    /\ rfm[a].Monetary.v < rfm[b].Monetary.v
    /\ rfm[a].Recency.v > rfm[b].Recency.v

LabelOfRows(c, v) ==
    \A i \in DOMAIN ret.rows :
        ret.rows[i].CustomerId = c => ret.rows[i].is_high_risk = Num(v)

\* C3: in the returned frame every row of a customer with an RFM row carries
\* 1 if the customer's cluster is the selected one and 0 otherwise; with
\* k = 2 and two customers in clusters of their own, one of lower Frequency,
\* lower Monetary and higher Recency, that customer's rows carry 1 and the
\* other's rows carry 0.
C3_LabelBroadcast ==
    pc = "labeled" =>
        /\ \A i \in DOMAIN ret.rows :
              ret.rows[i].CustomerId \in DOMAIN rfm =>
                  ret.rows[i].is_high_risk =
                      Num(IF cluster[ret.rows[i].CustomerId] = risk_cluster
                          THEN 1 ELSE 0)
        /\ \A a, b \in DOMAIN rfm :
              (n_clusters = 2 /\ DOMAIN rfm = {a, b} /\ cluster[a] # cluster[b]
                 /\ Dominated(a, b))
                  => (LabelOfRows(a, 1) /\ LabelOfRows(b, 0))

C3_Witness ==
    /\ pc = "labeled"
    /\ n_clusters = 2
    /\ \E a, b \in DOMAIN rfm :
          /\ DOMAIN rfm = {a, b} /\ cluster[a] # cluster[b] /\ Dominated(a, b)
          /\ Cardinality(RowsOfCustomer(ret.rows, b)) = 2
          /\ LabelOfRows(a, 1)

IdsPresent(rows) == {rows[i].CustomerId : i \in DOMAIN rows} \ {NoId}

WholeDays(from, to) ==
    LET far == IF to < from THEN from - to ELSE to - from
    IN  CHOOSE d \in (0 - far - 1)..(far + 1) :
            d * TicksPerDay <= to - from /\ to - from < (d + 1) * TicksPerDay

\* C4: the RFM table has one row per customer id of the input and no other,
\* Frequency is the number of the customer's rows, Monetary the sum of their
\* amounts, and Recency the whole days from the customer's latest timestamp
\* to the snapshot date.
C4_RfmTable ==
    AfterRfm =>
        /\ DOMAIN rfm = IdsPresent(out)
        /\ \A c \in DOMAIN rfm :
              LET I == RowsOfCustomer(out, c)
              IN  /\ rfm[c].Frequency = Num(Cardinality(I))
                  /\ rfm[c].Monetary = Num(SumOver(I, [i \in I |-> out[i].Amount]))
                  /\ ValidTicks(out, I) # {} =>
                        rfm[c].Recency =
                            Num(WholeDays(Max(ValidTicks(out, I)), snapshot_date))

\* C5: for an input that passes the validation, every customer of the RFM
\* table has Frequency >= 1, and Recency >= 0 when the snapshot date is the
\* default or is not before the latest timestamp of the data.
C5_FrequencyAndRecency ==
    AfterRfm =>
        \A c \in DOMAIN rfm :
            /\ rfm[c].Frequency.v >= 1
            /\ (~snapshot_arg.given
                  \/ snapshot_date >= Max(ValidTicks(out, DOMAIN out)))
                  => (~rfm[c].Recency.nan /\ rfm[c].Recency.v >= 0)

\* C6: when some timestamp parses and there are at least n_clusters
\* customers, the call does not fail, and in the returned frame the rows of
\* a customer without a timestamp that parses carry a missing label and all
\* other customers' rows carry 0 or 1.
C6_UnparsableAbsorbed ==
    /\ (pc = "failed" /\ SomeValid(df))
          => Cardinality(IdsPresent(df)) < n_clusters
    /\ pc = "labeled" =>
          \A i \in DOMAIN ret.rows :
              IF ValidTicks(out, RowsOfCustomer(out, ret.rows[i].CustomerId)) = {}
              THEN ret.rows[i].is_high_risk = Nan
              ELSE ret.rows[i].is_high_risk \in {Num(0), Num(1)}

SameTimestamp(a, b) ==
    \/ a = b
    \/ a.valid /\ b.valid /\ a.t = b.t

\* C7: the returned frame has one row per input row, in the input's order,
\* and every input column holds the input's value; a text that parses and
\* its Timestamp, and a timezone-aware Timestamp and the naive Timestamp of
\* its instant, count as the same value here.
C7_OnlyOneColumnAdded ==
    pc = "labeled" =>
        /\ Len(ret.rows) = Len(df)
        /\ \A i \in DOMAIN df :
              /\ ret.rows[i].CustomerId = df[i].CustomerId
              /\ ret.rows[i].Amount = df[i].Amount
              /\ SameTimestamp(ret.rows[i].TransactionStartTime,
                               df[i].TransactionStartTime)

StageOrder ==
    <<"UNFITTED", "RFM_COMPUTED", "SCALED", "CLUSTERED",
      "RISK_CLUSTER_SELECTED", "LABELED">>

InputColumns == {"CustomerId", "TransactionStartTime", "Amount"}

\* C8: the stages completed so far are an initial part of UNFITTED,
\* RFM_COMPUTED, SCALED, CLUSTERED, RISK_CLUSTER_SELECTED, LABELED; a frame is
\* returned exactly when all of them are completed, and after a failure none
\* is returned and the caller's frame has no label column.
C8_StagesInOrder ==
    /\ Len(stages) <= Len(StageOrder)
    /\ stages = SubSeq(StageOrder, 1, Len(stages))
    /\ ret.returned <=> stages = StageOrder
    /\ ret.returned <=> pc = "labeled"
    /\ \A i \in DOMAIN df : DOMAIN df[i] = InputColumns

C8_Witness ==
    /\ pc = "failed"
    /\ stages = SubSeq(StageOrder, 1, 3)
    /\ ~HasNan(rfm_scaled)
    /\ ~ret.returned

FitRows(c) == {i \in DOMAIN fit_X : fit_X[i].CustomerId = c}
FitSum(c) == SumOver(FitRows(c), [i \in FitRows(c) |-> fit_X[i].Amount])
\* The sum of squared deviations from the mean, times the square of the count.
FitDeviation2(c) ==
    LET n == Cardinality(FitRows(c))
    IN  SumOver(FitRows(c),
            [i \in FitRows(c) |->
                (n * fit_X[i].Amount - FitSum(c)) * (n * fit_X[i].Amount - FitSum(c))])

\* C9: after fit and transform the Aggregator step's output has one row per
\* input row, in order; a row of a customer of the fit frame carries the
\* customer's count, sum, mean and sample standard deviation of amount over
\* the fit frame, the deviation missing for a single transaction; a row of a
\* customer absent from the fit frame is kept with four missing values.
C9_AggregatesLeftJoined ==
    ppc = "transformed" =>
        /\ Len(agg_out) = Len(last_X)
        /\ \A i \in DOMAIN last_X :
              LET c == last_X[i].CustomerId
                  n == Cardinality(FitRows(c))
                  a == agg_out[i].agg
              IN  /\ agg_out[i].base.CustomerId = c
                  /\ agg_out[i].base.Amount = last_X[i].Amount
                  /\ IF n = 0
                     THEN \A col \in AggregateFeatures : a[col] = Missing
                     ELSE /\ a.Amount_count = Val(n, 1)
                          /\ a.Amount_sum = Val(FitSum(c), 1)
                          /\ ~a.Amount_mean.nan
                          /\ a.Amount_mean.num * n = FitSum(c) * a.Amount_mean.den
                          /\ a.Amount_std.nan <=> n = 1
                          /\ n > 1 =>
                                a.Amount_std.num * n * n * (n - 1)
                                    = FitDeviation2(c) * a.Amount_std.den

C9_Witness ==
    /\ ppc = "transformed"
    /\ fit_X # <<>>
    /\ \E c \in Customers : Cardinality(FitRows(c)) = 1
    /\ Len(last_X) = 1
    /\ FitRows(last_X[1].CustomerId) = {}
    /\ agg_out[1].agg = NoAggregates

FitAggs == AggregatorFit(DatetimeExtract(fit_X))
FitPrep == PrepFit(AggregatorTransform(FitAggs, DatetimeExtract(fit_X)))

\* C10: after fit, whatever transform calls were made, the fitted parameters
\* are those computed from the fit frame, and the last transform's output is
\* the one these parameters give for its input.
C10_TransformKeepsParameters ==
    /\ ppc \in {"fitted", "transformed"} => (aggs = FitAggs /\ prep = FitPrep)
    /\ (ppc = "transformed" /\ last_X # <<>>) =>
          last_out = PrepTransform(FitPrep,
                         AggregatorTransform(FitAggs, DatetimeExtract(last_X)))

C10_Witness ==
    /\ ppc = "transformed"
    /\ calls = 2
    /\ last_X # <<>>
    /\ AggregatorFit(DatetimeExtract(last_X)) # aggs
    /\ \E col \in CategoricalFeatures :
          last_X[1][col] \notin prep.categories[col] \cup {NoCat}
    /\ ~last_out.raised

====
